---- MODULE Spec2Model ----
(***************************************************************************)
(* Model of the iunpack! macro of itermacros (src/src/lib.rs).             *)
(*                                                                         *)
(* One expansion of the macro is a straight-line program over an iterator: *)
(* every call of Iterator::next / DoubleEndedIterator::next_back is one    *)
(* step of the model.  A behaviour expands one of the seven public arms of  *)
(* the macro over a source; to compare arms, the `**name` arm may then be   *)
(* expanded over the same source and the same patterns, the way the        *)
(* doctests of lib.rs expand `*c`, `**c` and `**` over 0..8.               *)
(*                                                                         *)
(* An element of the source is a pair <<position, value>>: the value is    *)
(* what a refutable pattern looks at, the position tells two equal values  *)
(* apart.                                                                  *)
(***************************************************************************)
EXTENDS Integers, Sequences, FiniteSets, TLC

\* Bounds of the model.
MaxLen == 5      \* longest source
MaxP == 2        \* most patterns before the middle marker
MaxK == 2        \* most patterns after the middle marker

VARIABLES
    src,        \* the elements $iter yields, in order
    fpat,       \* $fpat: the patterns written before the middle marker
    bpat,       \* $bpat: the patterns written after the middle marker
    arm,        \* the arm of the macro being expanded
    pc,         \* position inside the expansion
    iter,       \* __iter (or $mid in the `*=mid` arm): elements not yet pulled
    err,        \* $err of the `else(err)` arm: <<depth>>, or << >> when the arm has none
    fbind,      \* elements bound by the patterns matched from the front
    bbind,      \* elements bound by the patterns after the marker, in written order
    buf,        \* __buf
    bi,         \* __i
    mid,        \* $mid: the collected middle (or what the caller drains from `*=mid`)
    pulls,      \* number of next / next_back calls made by this expansion
    tests,      \* refutable-pattern evaluations made by this expansion, in order
    ran,        \* continuations ($body / $errbody) run by this expansion, in order
    results     \* value of each finished expansion, by arm

vars == <<src, fpat, bpat, arm, pc, iter, err, fbind, bbind, buf, bi, mid,
          pulls, tests, ran, results>>

----------------------------------------------------------------------------
\* Sources and patterns.

\* A slot is an irrefutable binding (`a`, `_b`) or a range pattern (`2..=10`).
Bind == [kind |-> "bind"]
Range(lo, hi) == [kind |-> "range", lo |-> lo, hi |-> hi]
Pats == {Bind, Range(2, 10)}

\* Element values: one the range pattern rejects, one it accepts.
Vals == {0, 2}

\* All sequences over S of length at most n.
SeqsUpTo(S, n) == UNION {[1..m -> S] : m \in 0..n}

\* A source yielding the values vs: element i is <<i, vs[i]>>.
Source(vs) == [i \in 1..Len(vs) |-> <<i, vs[i]>>]

\* `if let Some($pat) = ...`: does the pattern match the element?
Accepts(pat, x) ==
    \/ pat.kind = "bind"
    \/ pat.kind = "range" /\ pat.lo <= x[2] /\ x[2] <= pat.hi

----------------------------------------------------------------------------
\* Option values are sequences of length at most one.
None == << >>
Some(x) == <<x>>

\* IntoIterator::into_iter($iter)
into_iter(s) == s

\* next as if it did not advance the iterator.
after_next_stuck(it) == it

\* Iterator::next(&mut it): the value returned, and the iterator left.
next(it) == IF it = << >> THEN None ELSE Some(Head(it))
after_next(it) == IF it = << >> THEN it ELSE Tail(it)

\* next_back as if it pulled from the front.
next_back_front(it) == next(it)

\* next_back as if it left the element in the iterator.
after_next_back_keep(it) == it

\* DoubleEndedIterator::next_back(&mut it)
next_back(it) == IF it = << >> THEN None ELSE Some(it[Len(it)])
after_next_back(it) == IF it = << >> THEN it ELSE SubSeq(it, 1, Len(it) - 1)

\* rotate_left as if the rotation were left out.
rotate_left_none(s, m) == s

\* <[T]>::rotate_left(m)
rotate_left(s, m) == SubSeq(s, m + 1, Len(s)) \o SubSeq(s, 1, m)

----------------------------------------------------------------------------
\* The arms of the macro.

Arms == {"sized", "sized(err)", "*", "*name", "*=name", "**", "**name"}

SizedArms == {"sized", "sized(err)"}
BackArms == {"*", "*name", "*=name"}
WindowArms == {"**", "**name"}

\* The arm matches the patterns: the sized arms have no marker, hence no
\* pattern after it; the `**` arms need one (`$(, $bpat:pat)+`).
Applies(a) ==
    /\ a \in SizedArms => bpat = << >>
    /\ a \in WindowArms => Len(bpat) >= 1

\* The arms expanded a second time over the same source, and after which arm.
Again == {<<"*name", "**name">>, <<"**", "**name">>}

----------------------------------------------------------------------------
\* Where an expansion goes once a recursion of the macro runs out of patterns
\* (`@if ... else $body`: with no pattern left the macro expands to $body).

\* BackPc as if the `*name` arm did not collect the middle.
BackPcNoCollect(a, nb) ==
    IF nb < Len(bpat) THEN "back" ELSE "body"

\* @revpat_do_iter_back with nb of the patterns after the marker matched: with
\* none left it expands to its $body, which in the `*name` arm starts with
\* FromIterator::from_iter(__iter).
BackPc(a, nb) ==
    IF nb < Len(bpat) THEN "back"
    ELSE IF a = "*name" THEN "collect"
    ELSE "body"

\* FrontPc as if the sized arms made no trailing check.
FrontPcNoTail(a, nb) ==
    IF nb < Len(fpat) THEN "front"
    ELSE IF a \in SizedArms THEN "body"
    ELSE IF a \in BackArms THEN BackPc(a, 0)
    ELSE "fill"

\* @sized_pat with nb patterns matched: with none left it expands to its $body,
\* which is the trailing check (sized arms), @revpat_do_iter_back (`*` arms) or
\* the filling of __buf (`**` arms).
FrontPc(a, nb) ==
    IF nb < Len(fpat) THEN "front"
    ELSE IF a \in SizedArms THEN "tail"
    ELSE IF a \in BackArms THEN BackPc(a, 0)
    ELSE "fill"

\* Inc as if the depth were never incremented.
IncNone(e) == e

\* `$errval += 1`, in the arm that has an $errval.
Inc(e) == IF e = None THEN None ELSE Some(e[1] + 1)

\* BindBack as if the patterns after the marker were matched first first.
BindBackWritten(b, x) == Append(b, x)

\* The binding of the pattern matched by a next_back: the patterns after the
\* marker are matched last first, each binding enclosing the ones made before.
BindBack(b, x) == <<x>> \o b

\* A pattern evaluation: which slot looked at which element.
Test(side, n, x) == [slot |-> <<side, n>>, elem |-> x]

\* The value of a finished expansion.
NoResult == [st |-> "none", f |-> << >>, b |-> << >>, c |-> << >>, err |-> None]
Ok(f, b, c) == [st |-> "ok", f |-> f, b |-> b, c |-> c, err |-> None]
Failed(e) == [st |-> "err", f |-> << >>, b |-> << >>, c |-> << >>, err |-> e]

----------------------------------------------------------------------------
Init ==
    /\ src \in {Source(vs) : vs \in SeqsUpTo(Vals, MaxLen)}
    /\ fpat \in SeqsUpTo(Pats, MaxP)
    /\ bpat \in SeqsUpTo(Pats, MaxK)
    /\ arm = "none"
    /\ pc = "idle"
    /\ iter = << >>
    /\ err = None
    /\ fbind = << >>
    /\ bbind = << >>
    /\ buf = << >>
    /\ bi = 0
    /\ mid = << >>
    /\ pulls = 0
    /\ tests = << >>
    /\ ran = << >>
    /\ results = [a \in Arms |-> NoResult]

\* An arm of the macro is expanded over the source: `let mut __iter =
\* into_iter($iter)` and, in the else(err) arm, `let mut $err = 0usize`.
Call ==
    /\ \E a \in Arms :
        /\ Applies(a)
        /\ \/ pc = "idle"
           \/ pc = "done" /\ <<arm, a>> \in Again /\ results[a].st = "none"
        /\ arm' = a
        /\ err' = IF a = "sized(err)" THEN Some(0) ELSE None
        /\ pc' = FrontPc(a, 0)
    /\ iter' = into_iter(src)
    /\ fbind' = << >>
    /\ bbind' = << >>
    /\ buf' = << >>
    /\ bi' = 0
    /\ mid' = << >>
    /\ pulls' = 0
    /\ tests' = << >>
    /\ ran' = << >>
    /\ UNCHANGED <<src, fpat, bpat, results>>

\* SizedPat as if $errval counted the elements pulled, accepted or not.
SizedPatCountsPulled ==
    /\ pc = "front"
    /\ LET n == Len(fbind) + 1
           o == next(iter)
       IN /\ iter' = after_next(iter)
          /\ pulls' = pulls + 1
          /\ IF o = None
             THEN /\ pc' = "errbody"
                  /\ UNCHANGED <<fbind, err, tests>>
             ELSE /\ tests' = Append(tests, Test("f", n, o[1]))
                  /\ err' = Inc(err)
                  /\ IF Accepts(fpat[n], o[1])
                     THEN /\ fbind' = Append(fbind, o[1])
                          /\ pc' = FrontPc(arm, n)
                     ELSE /\ pc' = "errbody"
                          /\ UNCHANGED fbind
    /\ UNCHANGED <<src, fpat, bpat, arm, bbind, buf, bi, mid, ran, results>>

\* @sized_pat: `if let Some($fpat) = next(&mut $iter) { $errval += 1; ... }
\* else $errbody`.
SizedPat ==
    /\ pc = "front"
    /\ LET n == Len(fbind) + 1
           o == next(iter)
       IN /\ iter' = after_next(iter)
          /\ pulls' = pulls + 1
          /\ IF o = None
             THEN /\ pc' = "errbody"
                  /\ UNCHANGED <<fbind, err, tests>>
             ELSE /\ tests' = Append(tests, Test("f", n, o[1]))
                  /\ IF Accepts(fpat[n], o[1])
                     THEN /\ fbind' = Append(fbind, o[1])
                          /\ err' = Inc(err)
                          /\ pc' = FrontPc(arm, n)
                     ELSE /\ pc' = "errbody"
                          /\ UNCHANGED <<fbind, err>>
    /\ UNCHANGED <<src, fpat, bpat, arm, bbind, buf, bi, mid, ran, results>>

\* TrailingCheck as if the excess were found by running the iterator to its
\* end (`__iter.count() > 0`) instead of by one next.
TrailingCheckCounts ==
    /\ pc = "tail"
    /\ iter' = << >>
    /\ pulls' = pulls + Len(iter) + 1
    /\ pc' = IF next(iter) = None THEN "body" ELSE "errbody"
    /\ UNCHANGED <<src, fpat, bpat, arm, err, fbind, bbind, buf, bi, mid,
                   tests, ran, results>>

\* The $body the sized arms hand to @sized_pat: `if let Some(_) = next(&mut
\* __iter) { $errbody } else { $body }`.
TrailingCheck ==
    /\ pc = "tail"
    /\ iter' = after_next(iter)
    /\ pulls' = pulls + 1
    /\ pc' = IF next(iter) = None THEN "body" ELSE "errbody"
    /\ UNCHANGED <<src, fpat, bpat, arm, err, fbind, bbind, buf, bi, mid,
                   tests, ran, results>>

\* RevPat as if the first pattern after the marker were the outermost `if
\* let`, the patterns taking the elements pulled from the back in written order.
RevPatWritten ==
    /\ pc = "back"
    /\ LET n == Len(bbind) + 1
           o == next_back(iter)
       IN /\ iter' = after_next_back(iter)
          /\ pulls' = pulls + 1
          /\ IF o = None
             THEN /\ pc' = "errbody"
                  /\ UNCHANGED <<bbind, tests>>
             ELSE /\ tests' = Append(tests, Test("b", n, o[1]))
                  /\ IF Accepts(bpat[n], o[1])
                     THEN /\ bbind' = BindBack(bbind, o[1])
                          /\ pc' = BackPc(arm, Len(bbind) + 1)
                     ELSE /\ pc' = "errbody"
                          /\ UNCHANGED bbind
    /\ UNCHANGED <<src, fpat, bpat, arm, err, fbind, buf, bi, mid, ran, results>>

\* @revpat_do_iter_back: `if let Some($used) = next_back(&mut $iter) { $body }
\* else { $errbody }`, the last pattern outermost.
RevPat ==
    /\ pc = "back"
    /\ LET n == Len(bpat) - Len(bbind)
           o == next_back(iter)
       IN /\ iter' = after_next_back(iter)
          /\ pulls' = pulls + 1
          /\ IF o = None
             THEN /\ pc' = "errbody"
                  /\ UNCHANGED <<bbind, tests>>
             ELSE /\ tests' = Append(tests, Test("b", n, o[1]))
                  /\ IF Accepts(bpat[n], o[1])
                     THEN /\ bbind' = BindBack(bbind, o[1])
                          /\ pc' = BackPc(arm, Len(bbind) + 1)
                     ELSE /\ pc' = "errbody"
                          /\ UNCHANGED bbind
    /\ UNCHANGED <<src, fpat, bpat, arm, err, fbind, buf, bi, mid, ran, results>>

\* `let $mid = FromIterator::from_iter(__iter)`: the rest of the iterator is
\* pulled from the front into the collection, one next at a time.
Collect ==
    /\ pc = "collect"
    /\ LET o == next(iter)
       IN /\ iter' = after_next(iter)
          /\ pulls' = pulls + 1
          /\ IF o = None
             THEN /\ pc' = "body"
                  /\ UNCHANGED mid
             ELSE /\ mid' = Append(mid, o[1])
                  /\ pc' = "collect"
    /\ UNCHANGED <<src, fpat, bpat, arm, err, fbind, bbind, buf, bi, tests,
                   ran, results>>

\* Fill as if the window loop were left out: the array pattern is matched as
\* soon as __buf is filled.
FillThenMatch ==
    /\ pc = "fill"
    /\ LET o == next(iter)
       IN /\ iter' = after_next(iter)
          /\ pulls' = pulls + 1
          /\ IF o = None
             THEN /\ pc' = "errbody"
                  /\ UNCHANGED buf
             ELSE /\ buf' = Append(buf, o[1])
                  /\ pc' = IF Len(buf) + 1 < Len(bpat) THEN "fill" ELSE "match"
    /\ bi' = 0
    /\ mid' = << >>
    /\ UNCHANGED <<src, fpat, bpat, arm, err, fbind, bbind, tests, ran, results>>

\* Fill as if a short window did not break out to $errbody.
FillNoBreak ==
    /\ pc = "fill"
    /\ LET o == next(iter)
       IN /\ iter' = after_next(iter)
          /\ pulls' = pulls + 1
          /\ IF o = None
             THEN /\ pc' = "body"
                  /\ UNCHANGED buf
             ELSE /\ buf' = Append(buf, o[1])
                  /\ pc' = IF Len(buf) + 1 < Len(bpat) THEN "fill" ELSE "slide"
    /\ bi' = 0
    /\ mid' = << >>
    /\ UNCHANGED <<src, fpat, bpat, arm, err, fbind, bbind, tests, ran, results>>

\* Fill as if the window were filled through the patterns after the marker
\* ($bpat in place of `x`), testing each element as it enters __buf.
FillTests ==
    /\ pc = "fill"
    /\ LET o == next(iter)
       IN /\ iter' = after_next(iter)
          /\ pulls' = pulls + 1
          /\ IF o = None
             THEN /\ pc' = "errbody"
                  /\ UNCHANGED <<buf, tests>>
             ELSE /\ tests' = Append(tests, Test("b", Len(buf) + 1, o[1]))
                  /\ buf' = Append(buf, o[1])
                  /\ pc' = IF ~Accepts(bpat[Len(buf) + 1], o[1]) THEN "errbody"
                           ELSE IF Len(buf) + 1 < Len(bpat) THEN "fill"
                           ELSE "slide"
    /\ bi' = 0
    /\ mid' = << >>
    /\ UNCHANGED <<src, fpat, bpat, arm, err, fbind, bbind, ran, results>>

\* `let mut __buf = [$(match next(&mut __iter) { Some(x) => x, None => break
\* $errbody }),+]`, then `let mut __i = 0` and `let mut $mid = default()`.
Fill ==
    /\ pc = "fill"
    /\ LET o == next(iter)
       IN /\ iter' = after_next(iter)
          /\ pulls' = pulls + 1
          /\ IF o = None
             THEN /\ pc' = "errbody"
                  /\ UNCHANGED buf
             ELSE /\ buf' = Append(buf, o[1])
                  /\ pc' = IF Len(buf) + 1 < Len(bpat) THEN "fill" ELSE "slide"
    /\ bi' = 0
    /\ mid' = << >>
    /\ UNCHANGED <<src, fpat, bpat, arm, err, fbind, bbind, tests, ran, results>>

\* Slide as if the `**` arm dropped the element pulled instead of the one it
\* evicts (`__buf[__i] = __elem` left out).
SlideDropsNew ==
    /\ pc = "slide"
    /\ LET o == next(iter)
       IN /\ iter' = after_next(iter)
          /\ pulls' = pulls + 1
          /\ IF o = None
             THEN /\ pc' = "match"
                  /\ UNCHANGED <<buf, bi, mid>>
             ELSE /\ mid' = IF arm = "**name" THEN Append(mid, buf[bi + 1]) ELSE mid
                  /\ buf' = IF arm = "**name" THEN [buf EXCEPT ![bi + 1] = o[1]]
                            ELSE buf
                  /\ bi' = (bi + 1) % Len(buf)
                  /\ pc' = "slide"
    /\ UNCHANGED <<src, fpat, bpat, arm, err, fbind, bbind, tests, ran, results>>

\* Slide as if the loop did not end when next returns None (`loop` with an `if
\* let` and no break, in place of `while let`).
SlideNoExit ==
    /\ pc = "slide"
    /\ LET o == next(iter)
       IN /\ iter' = after_next(iter)
          /\ pulls' = pulls + 1
          /\ IF o = None
             THEN /\ pc' = "slide"
                  /\ UNCHANGED <<buf, bi, mid>>
             ELSE /\ mid' = IF arm = "**name" THEN Append(mid, buf[bi + 1]) ELSE mid
                  /\ buf' = [buf EXCEPT ![bi + 1] = o[1]]
                  /\ bi' = (bi + 1) % Len(buf)
                  /\ pc' = "slide"
    /\ UNCHANGED <<src, fpat, bpat, arm, err, fbind, bbind, tests, ran, results>>

\* Slide as if `__i %= __buf.len()` were left out.
SlideNoWrap ==
    /\ pc = "slide"
    /\ LET o == next(iter)
       IN /\ iter' = after_next(iter)
          /\ pulls' = pulls + 1
          /\ IF o = None
             THEN /\ pc' = "match"
                  /\ UNCHANGED <<buf, bi, mid>>
             ELSE /\ mid' = IF arm = "**name" THEN Append(mid, buf[bi + 1]) ELSE mid
                  /\ buf' = [buf EXCEPT ![bi + 1] = o[1]]
                  /\ bi' = bi + 1
                  /\ pc' = "slide"
    /\ UNCHANGED <<src, fpat, bpat, arm, err, fbind, bbind, tests, ran, results>>

\* `while let Some(__elem) = next(&mut __iter)`: in the `**` arm `__buf[__i] =
\* __elem`, in the `**name` arm `extend(&mut $mid, Some(replace(&mut
\* __buf[__i], __elem)))`; then `__i += 1; __i %= __buf.len()`.
Slide ==
    /\ pc = "slide"
    /\ LET o == next(iter)
       IN /\ iter' = after_next(iter)
          /\ pulls' = pulls + 1
          /\ IF o = None
             THEN /\ pc' = "match"
                  /\ UNCHANGED <<buf, bi, mid>>
             ELSE /\ mid' = IF arm = "**name" THEN Append(mid, buf[bi + 1]) ELSE mid
                  /\ buf' = [buf EXCEPT ![bi + 1] = o[1]]
                  /\ bi' = (bi + 1) % Len(buf)
                  /\ pc' = "slide"
    /\ UNCHANGED <<src, fpat, bpat, arm, err, fbind, bbind, tests, ran, results>>

\* `__buf.rotate_left(__i); if let [$($bpat),+] = __buf { $body } else {
\* $errbody }`.  The array pattern is tested left to right up to the first
\* subpattern that does not match.
Match ==
    /\ pc = "match"
    /\ LET r == rotate_left(buf, bi)
           bad == {j \in 1..Len(bpat) : ~Accepts(bpat[j], r[j])}
           upto == IF bad = {} THEN Len(bpat)
                   ELSE CHOOSE j \in bad : \A l \in bad : j <= l
       IN /\ buf' = r
          /\ tests' = tests \o [j \in 1..upto |-> Test("b", j, r[j])]
          /\ IF bad = {}
             THEN /\ bbind' = r
                  /\ pc' = "body"
             ELSE /\ pc' = "errbody"
                  /\ UNCHANGED bbind
    /\ UNCHANGED <<src, fpat, bpat, arm, iter, err, fbind, bi, mid, pulls,
                   ran, results>>

\* $body runs with the bindings in scope.  In the `*=mid` arm the binding of
\* the middle is the iterator itself, which the body then consumes.
Body ==
    /\ pc = "body"
    /\ ran' = Append(ran, "body")
    /\ IF arm = "*=name"
       THEN /\ pc' = "drain"
            /\ UNCHANGED results
       ELSE /\ pc' = "done"
            /\ results' = [results EXCEPT ![arm] = Ok(fbind, bbind, mid)]
    /\ UNCHANGED <<src, fpat, bpat, arm, iter, err, fbind, bbind, buf, bi,
                   mid, pulls, tests>>

\* The body of a `*=mid` expansion consumes the iterator it was given to
\* exhaustion (`c.collect::<Vec<_>>()`).
Drain ==
    /\ pc = "drain"
    /\ LET o == next(iter)
       IN /\ iter' = after_next(iter)
          /\ IF o = None
             THEN /\ pc' = "done"
                  /\ results' = [results EXCEPT ![arm] = Ok(fbind, bbind, mid)]
                  /\ UNCHANGED mid
             ELSE /\ mid' = Append(mid, o[1])
                  /\ pc' = "drain"
                  /\ UNCHANGED results
    /\ UNCHANGED <<src, fpat, bpat, arm, err, fbind, bbind, buf, bi, pulls,
                   tests, ran>>

\* ErrBody as if, in the `**` arms, $errbody were not followed by a break
\* out of the loop and the expansion went on to $body.
ErrBodyNoBreak ==
    /\ pc = "errbody"
    /\ ran' = Append(ran, "errbody")
    /\ results' = [results EXCEPT ![arm] = Failed(err)]
    /\ pc' = IF arm \in WindowArms THEN "body" ELSE "done"
    /\ UNCHANGED <<src, fpat, bpat, arm, iter, err, fbind, bbind, buf, bi,
                   mid, pulls, tests>>

\* $errbody runs; in the else(err) arm it sees $err.
ErrBody ==
    /\ pc = "errbody"
    /\ ran' = Append(ran, "errbody")
    /\ results' = [results EXCEPT ![arm] = Failed(err)]
    /\ pc' = "done"
    /\ UNCHANGED <<src, fpat, bpat, arm, iter, err, fbind, bbind, buf, bi,
                   mid, pulls, tests>>

Next ==
    \/ Call
    \/ SizedPat
    \/ TrailingCheck
    \/ RevPat
    \/ Collect
    \/ Fill
    \/ Slide
    \/ Match
    \/ Body
    \/ Drain
    \/ ErrBody

Spec == Init /\ [][Next]_vars

\* An expansion is synchronous, straight-line code: once started it takes its
\* next step, whatever it is, until it has run a continuation.
FairSpec == Spec /\ WF_vars(Next)

----------------------------------------------------------------------------
\* Vocabulary of the properties.

N == Len(src)
P == Len(fpat)
K == Len(bpat)

\* The expansion of arm a has finished.
Finished(a) == results[a].st # "none"

\* The current expansion has finished.
Done == pc = "done"

\* The patterns ps accept the elements xs, slot by slot.
AcceptAll(ps, xs) ==
    /\ Len(ps) = Len(xs)
    /\ \A j \in 1..Len(ps) : Accepts(ps[j], xs[j])

\* The parts of a source of at least P + K elements.
SrcPrefix == SubSeq(src, 1, P)
SrcMiddle == SubSeq(src, P + 1, N - K)
SrcSuffix == SubSeq(src, N - K + 1, N)

\* The source is long enough and every slot accepts the element it is due.
Fits == N >= P + K /\ AcceptAll(fpat, SrcPrefix) /\ AcceptAll(bpat, SrcSuffix)

----------------------------------------------------------------------------
\* C1 (window correctness): in the `**name` arm, for every source of length
\* N >= P + K whose elements are accepted by their slots, the match succeeds,
\* the patterns after the marker are bound to the last K elements of the
\* source in order, and the collected middle is exactly elements P .. N-K of
\* the source in order.
C1_WindowCorrect ==
    (Finished("**name") /\ Fits) =>
        /\ results["**name"].st = "ok"
        /\ results["**name"].b = SrcSuffix
        /\ results["**name"].c = SrcMiddle

\* A `**name` match with a two-slot window that slid three times, so that the
\* cursor wrapped around and stopped off zero.
C1_Witness ==
    /\ arm = "**name" /\ Done /\ Fits
    /\ K = 2 /\ Len(results["**name"].c) = 3 /\ bi = 1

\* C2 (bidirectional / forward-only equivalence): over the same patterns and
\* the same source, the `*name` arm and the `**name` arm both fail or both
\* succeed, and on success bind the same prefix, the same collected middle and
\* the same suffix.
C2_Equivalent ==
    (Finished("*name") /\ Finished("**name")) =>
        /\ results["*name"].st = results["**name"].st
        /\ results["*name"].f = results["**name"].f
        /\ results["*name"].c = results["**name"].c
        /\ results["*name"].b = results["**name"].b

\* Both arms succeeded with two suffix slots bound to different values and a
\* middle of two elements.
C2_Witness ==
    /\ Finished("*name") /\ results["**name"].st = "ok"
    /\ K = 2 /\ Len(results["**name"].c) = 2
    /\ results["**name"].b[1][2] # results["**name"].b[2][2]

\* C3 (bidirectional collecting mode): in the `*name` arm, a source of length
\* N >= P + K whose elements are accepted by their slots matches, with the
\* prefix bound to the first P elements in order, the suffix bound to the last
\* K elements in written order, and the middle collected as elements P .. N-K
\* in order; a source of length N < P + K fails; and no element is ever bound
\* both to a prefix and to a suffix slot.
C3_BackCorrect ==
    /\ (Finished("*name") /\ Fits) =>
            results["*name"] = Ok(SrcPrefix, SrcSuffix, SrcMiddle)
    /\ (Finished("*name") /\ N < P + K) => results["*name"].st = "err"
    /\ arm = "*name" =>
            \A x \in 1..Len(fbind), y \in 1..Len(bbind) : fbind[x] # bbind[y]

\* A `*name` match with two prefix slots, two suffix slots and a middle.
C3_Witness ==
    /\ arm = "*name" /\ Done /\ Fits
    /\ P = 2 /\ K = 2 /\ Len(results["*name"].c) >= 1

\* A `*name` attempt on a source shorter than P + K, all of whose elements the
\* slots would accept.
C3_WitnessShort ==
    /\ arm = "*name" /\ Done /\ N < P + K /\ N >= 1
    /\ \A j \in 1..N : Accepts(Range(2, 10), src[j])

\* C4 (resumable exposure): when a `*=name` match succeeds, the iterator bound
\* to the name is the source with the first P and the last K elements pulled
\* off, and consuming it to exhaustion yields exactly elements P .. N-K of the
\* source, in order, each once.
C4_Resumable ==
    /\ (arm = "*=name" /\ pc = "body") => iter = SrcMiddle
    /\ (arm = "*=name" /\ pc = "drain") => mid \o iter = SrcMiddle
    /\ (Finished("*=name") /\ results["*=name"].st = "ok") =>
            results["*=name"] = Ok(SrcPrefix, SrcSuffix, SrcMiddle)

\* A `*=name` match whose iterator was drained of three elements.
C4_Witness ==
    /\ arm = "*=name" /\ Done /\ results["*=name"].st = "ok"
    /\ P >= 1 /\ K >= 1 /\ Len(mid) = 3 /\ iter = << >>

----------------------------------------------------------------------------
\* The sized arms: the pattern is fpat, of P slots.

\* The first m elements of the source, m at most N.
Taken(m) == SubSeq(src, 1, m)

\* C5 as stated (exact fit): a sized pattern over a source of exactly as many
\* elements as it has slots always matches and binds the elements in order.
C5_ExactFitAlways ==
    \A a \in SizedArms :
        (Finished(a) /\ N = P) => results[a] = Ok(src, << >>, << >>)

\* C5 as amended (exact fit): a sized pattern over a source of exactly as many
\* elements as it has slots, each element accepted by its slot, matches and
\* binds the i-th element pulled to the i-th slot; $errbody does not run.
C5_ExactFit ==
    (arm \in SizedArms /\ Done /\ AcceptAll(fpat, src)) =>
        /\ results[arm] = Ok(src, << >>, << >>)
        /\ ran = <<"body">>

\* A sized match of two elements against patterns one of which is refutable.
C5_Witness ==
    /\ arm \in SizedArms /\ Done /\ AcceptAll(fpat, src)
    /\ N = 2 /\ \E j \in 1..N : fpat[j].kind = "range"

\* C6 as stated (too few): a sized pattern over a source of N elements, fewer
\* than it has slots, fails, and $errbody sees the depth N.
C6_TooFewAlways ==
    \A a \in SizedArms :
        (Finished(a) /\ N < P) =>
            /\ results[a].st = "err"
            /\ a = "sized(err)" => results[a].err = Some(N)

\* C6 as amended (too few): a sized pattern over a source of N elements, fewer
\* than it has slots, fails; when each of the N elements is accepted by its
\* slot, $errbody sees the depth N.
C6_TooFew ==
    \A a \in SizedArms :
        (Finished(a) /\ N < P) =>
            /\ results[a].st = "err"
            /\ (a = "sized(err)" /\ AcceptAll(SubSeq(fpat, 1, N), src)) =>
                    results[a].err = Some(N)

\* A source of one element, accepted by the refutable first slot of a longer
\* pattern.
C6_Witness ==
    /\ arm = "sized(err)" /\ Done /\ N < P /\ N >= 1
    /\ AcceptAll(SubSeq(fpat, 1, N), src)
    /\ \E j \in 1..N : fpat[j].kind = "range"
    /\ err = Some(N)

\* C7 as stated (too many): a sized pattern over a source of more elements
\* than it has slots fails, and $errbody sees the depth P, the number of
\* slots.
C7_TooManyAlways ==
    \A a \in SizedArms :
        (Finished(a) /\ N > P) =>
            /\ results[a].st = "err"
            /\ a = "sized(err)" => results[a].err = Some(P)

\* C7 as amended (too many): a sized pattern over a source of more elements
\* than it has slots fails; when the first P elements are accepted by their
\* slots, $errbody sees the depth P and the excess was found by exactly one
\* more pull.
C7_TooMany ==
    (arm \in SizedArms /\ Done /\ N > P) =>
        /\ results[arm].st = "err"
        /\ AcceptAll(fpat, Taken(P)) =>
            /\ pulls = P + 1
            /\ arm = "sized(err)" => results[arm].err = Some(P)

\* A source two or more elements longer than a pattern of two or more slots
\* that accepts its first elements.
C7_Witness ==
    /\ arm = "sized(err)" /\ Done
    /\ P >= 2 /\ N >= P + 2
    /\ AcceptAll(fpat, Taken(P))
    /\ err = Some(P) /\ Len(iter) >= 1

----------------------------------------------------------------------------
\* The last pattern evaluation of the current expansion was made by a pattern
\* before the marker (or a pattern of a sized arm), which rejected the element.
LastTest == tests[Len(tests)]
FrontRejected ==
    /\ tests # << >>
    /\ LastTest.slot[1] = "f"
    /\ ~Accepts(fpat[LastTest.slot[2]], LastTest.elem)

\* C8 (guard rejection in the prefix): when the pattern of slot i (0-based) of
\* the patterns matched from the front rejects the element pulled for it, the
\* expansion goes to $errbody with i elements bound and, where there is a
\* depth, depth i; no further element is pulled, no other pattern is evaluated,
\* the rejected element was offered to that slot only, and $body never runs.
C8_GuardRejects ==
    FrontRejected =>
        LET i == LastTest.slot[2] - 1
        IN /\ pc \in {"errbody", "done"}
           /\ Len(fbind) = i
           /\ bbind = << >>
           /\ arm = "sized(err)" => err = Some(i)
           /\ pulls = i + 1
           /\ Len(tests) = i + 1
           /\ \A t \in 1..(i + 1) : tests[t].slot = <<"f", t>>
           /\ \A t \in 1..i : tests[t].elem # LastTest.elem
           /\ ran \in {<< >>, <<"errbody">>}
           /\ Done => (ran = <<"errbody">> /\ results[arm] = Failed(err))

\* The else(err) arm finished after its second slot rejected, with elements
\* left in the source.
C8_Witness ==
    /\ arm = "sized(err)" /\ Done /\ FrontRejected
    /\ LastTest.slot[2] = 2 /\ Len(iter) >= 2 /\ P >= 2

----------------------------------------------------------------------------
\* The `**` arms: the patterns before the marker all matched and a pull made
\* to fill __buf found the source exhausted.
FillShort ==
    /\ arm \in WindowArms
    /\ Len(fbind) = P
    /\ Len(buf) < K
    /\ pulls = P + Len(buf) + 1

\* The source has the P elements the patterns before the marker accept.
FrontFits == N >= P /\ AcceptAll(fpat, SrcPrefix)

----------------------------------------------------------------------------
\* The strategies the source lifecycle is stated of: no middle, `*`, `*name`.
ConsumingArms == SizedArms \cup {"*", "*name"}

\* The current expansion failed because a pull found the source exhausted:
\* no pattern rejected, and it was not the trailing check that failed.
FailedExhausted ==
    /\ Done /\ ran = <<"errbody">>
    /\ tests # << >> => Accepts((IF LastTest.slot[1] = "f" THEN fpat
                                 ELSE bpat)[LastTest.slot[2]], LastTest.elem)
    /\ ~(arm \in SizedArms /\ Len(fbind) = P)

\* C10 as stated (source lifecycle): whenever an expansion of a sized arm, of
\* `*` or of `*name` completes, with $body or with $errbody, no element of the
\* source remains unpulled.
C10_ConsumedAlways ==
    (arm \in ConsumingArms /\ Done) => iter = << >>

\* C10 as amended (source lifecycle): no element of the source remains
\* unpulled when an expansion of a sized arm or of `*name` completes with
\* $body, or when an expansion of a sized arm, of `*` or of `*name` fails
\* because a pull found the source exhausted.
C10_Consumed ==
    /\ (arm \in SizedArms \cup {"*name"} /\ Done /\ ran = <<"body">>) =>
            iter = << >>
    /\ (arm \in ConsumingArms /\ FailedExhausted) => iter = << >>

\* A `*name` match that collected a middle of two or more elements.
C10_Witness ==
    /\ arm = "*name" /\ Done /\ ran = <<"body">>
    /\ P >= 1 /\ K >= 1 /\ Len(mid) >= 2 /\ iter = << >>

----------------------------------------------------------------------------
\* The pattern evaluations made so far by the slots before the marker and by
\* the slots after it.
FrontTests == SelectSeq(tests, LAMBDA t : t.slot[1] = "f")
BackTests == SelectSeq(tests, LAMBDA t : t.slot[1] = "b")

\* The element of the source a slot is due: slot j before the marker the j-th
\* element, slot j after the marker the j-th of the last K.
Due(slot) == IF slot[1] = "f" THEN slot[2] ELSE N - K + slot[2]

\* C11 (idempotent predicates): in every arm, a slot's pattern is evaluated at
\* most once and no element is tested by more than one slot or more than once;
\* the element a slot tests is the one it is due; a successful match has
\* evaluated each of the P + K patterns exactly once; and in the `**` arms no
\* pattern after the marker is evaluated while elements are buffered or
\* evicted, only the last K elements being tested, once each, after the loop.
C11_TestedOnce ==
    /\ \A s, t \in 1..Len(tests) :
            s # t => (tests[s].elem # tests[t].elem /\ tests[s].slot # tests[t].slot)
    /\ \A t \in 1..Len(tests) :
            /\ Due(tests[t].slot) \in 1..N
            /\ tests[t].elem = src[Due(tests[t].slot)]
    /\ ran = <<"body">> => Len(tests) = P + K
    /\ (arm \in WindowArms /\ pc \in {"front", "fill", "slide", "match"}) =>
            BackTests = << >>

\* A `**name` match of a source whose middle went through a window of two
\* refutable slots.
C11_Witness ==
    /\ arm = "**name" /\ Done /\ ran = <<"body">>
    /\ K = 2 /\ Len(mid) >= 2 /\ Len(BackTests) = 2
    /\ \A j \in 1..K : bpat[j].kind = "range"

----------------------------------------------------------------------------
\* The length the arm requires of the source: exactly P in the sized arms, at
\* least P + K in the others.
LengthFits == IF arm \in SizedArms THEN N = P ELSE N >= P + K

\* C12 (exactly one continuation): no expansion runs more than one
\* continuation; a finished expansion has run exactly one of $body and
\* $errbody, once, and its value is the value of the one that ran; $body runs
\* only if the length of the source fits and every slot before and after the
\* marker accepted its element.
C12_OneContinuation ==
    /\ ran \in {<< >>, <<"body">>, <<"errbody">>}
    /\ pc \in {"drain", "done"} <=> ran # << >>
    /\ Done => results[arm].st = (IF ran = <<"body">> THEN "ok" ELSE "err")
    /\ ran = <<"body">> => (LengthFits /\ Fits)
    /\ (Done /\ ran = <<"body">>) =>
            (results[arm].f = SrcPrefix /\ results[arm].b = SrcSuffix)

\* A `**` expansion that ended in $errbody on a source long enough, a slot
\* after the marker having rejected its element.
C12_Witness ==
    /\ arm = "**" /\ Done /\ ran = <<"errbody">>
    /\ N >= P + K + 1 /\ P >= 1 /\ Len(BackTests) >= 1

----------------------------------------------------------------------------
\* The `**` arms, between the filling of __buf and its rotation: the number of
\* elements pulled since __buf was filled.
InWindow == arm \in WindowArms /\ pc \in {"slide", "match"}
Slid == N - Len(iter) - P - K

\* C13 (sliding-window invariant): in the `**` arms, once __buf is filled and
\* t further elements have been pulled, __i = t mod K with 0 <= __i < K, __buf
\* has K elements and, rotated left by __i, is the last K elements pulled in
\* stream order; in the `**name` arm $mid holds exactly the first t elements
\* after the prefix in stream order (each evicted element handed over once),
\* in the `**` arm nothing is collected.
C13_Window ==
    InWindow =>
        /\ Slid >= 0
        /\ bi = Slid % K
        /\ 0 <= bi /\ bi < K
        /\ Len(buf) = K
        /\ rotate_left(buf, bi) = SubSeq(src, P + Slid + 1, P + Slid + K)
        /\ mid = (IF arm = "**name" THEN SubSeq(src, P + 1, P + Slid) ELSE << >>)

\* A window of two slots in the middle of the stream, after three evictions.
C13_Witness ==
    /\ InWindow /\ arm = "**name" /\ pc = "slide"
    /\ K = 2 /\ Slid = 3 /\ bi = 1 /\ Len(mid) = 3

----------------------------------------------------------------------------
\* The current expansion is on its way to $errbody or has run it.
Failing == pc = "errbody" \/ ran = <<"errbody">>

\* C14 (pull ordering in the `*`, `*name` and `*=name` arms): every element
\* pulled from the front for the prefix is pulled before any element is
\* pulled from the back; the front pulls serve the patterns before the marker
\* in written order, the back pulls the patterns after the marker in reverse
\* written order, one pull per slot; the first exhaustion or rejection sends
\* the expansion to $errbody with no further pull from either end; and the
\* middle is collected only after every slot after the marker succeeded.
C14_PullOrder ==
    arm \in BackArms =>
        /\ tests = FrontTests \o BackTests
        /\ \A t \in 1..Len(FrontTests) :
                FrontTests[t] = Test("f", t, src[t])
        /\ \A t \in 1..Len(BackTests) :
                BackTests[t] = Test("b", K - t + 1, src[N - t + 1])
        /\ BackTests # << >> => Len(fbind) = P
        /\ pc \in {"front", "back"} =>
                (pulls = Len(tests) /\ Len(iter) = N - Len(tests))
        /\ Failing =>
                /\ pulls \in {Len(tests), Len(tests) + 1}
                /\ Len(iter) = N - Len(tests)
                /\ mid = << >>
        /\ (pc = "collect" \/ mid # << >>) =>
                (Len(fbind) = P /\ Len(bbind) = K)

\* A `*name` expansion collecting the middle after two pulls from the front
\* and two from the back.
C14_Witness ==
    /\ arm = "*name" /\ pc = "collect" /\ Len(mid) = 1
    /\ Len(FrontTests) = 2 /\ Len(BackTests) = 2

\* A `*` expansion stopped by the rejection of the last pattern, the first
\* pulled from the back, with elements left at both ends.
C14_WitnessRejected ==
    /\ arm = "*" /\ Done /\ ran = <<"errbody">>
    /\ P = 1 /\ K = 2 /\ Len(BackTests) = 1 /\ Len(iter) >= 2

----------------------------------------------------------------------------
\* C15 (`**` against `**name`): over the same patterns and the same source the
\* two arms both succeed or both fail, and on success bind the same prefix and
\* the same suffix, the suffix being the last K elements of the source in
\* order; the `**` arm collects nothing.
C15_UnnamedWindow ==
    /\ (Finished("**") /\ Finished("**name")) =>
        /\ results["**"].st = results["**name"].st
        /\ results["**"].f = results["**name"].f
        /\ results["**"].b = results["**name"].b
    /\ results["**"].st = "ok" => results["**"].b = SrcSuffix
    /\ results["**"].c = << >>

\* Both arms matched a source whose middle of three elements went through a
\* window of two slots, bound to different values.
C15_Witness ==
    /\ results["**"].st = "ok" /\ results["**name"].st = "ok"
    /\ K = 2 /\ Len(results["**name"].c) = 3
    /\ results["**"].b[1][2] # results["**"].b[2][2]

----------------------------------------------------------------------------
\* The positions of an expansion whose next step is a pull made by the macro.
PullPcs == {"front", "tail", "back", "collect", "fill", "slide"}

\* The number of pulls of the current expansion that found the source
\* exhausted: its pulls less the elements it took (the elements the body of
\* `*=mid` drains afterwards are not pulls of the macro).
Exhaustions ==
    pulls - (N - Len(iter) - (IF arm = "*=name" THEN Len(mid) ELSE 0))

\* C16 (termination): over every finite source and in every arm, every
\* expansion started completes, with $body or $errbody, so that every
\* behaviour ends with its expansions done for good; an expansion makes at
\* most N + 1 pulls, at most one of which finds the source exhausted, and it
\* never pulls again once a pull (of the window loop or any other) found the
\* source exhausted.
C16_Terminates ==
    /\ [](pc # "idle" =>
            /\ pulls <= N + 1
            /\ Exhaustions \in {0, 1}
            /\ Exhaustions = 1 => pc \notin PullPcs)
    /\ <>[]Done

\* A `**` expansion completed after its window loop ran to the exhaustion of a
\* source of five elements.
C16_Witness ==
    /\ arm = "**" /\ Done /\ ran = <<"body">>
    /\ N = 5 /\ pulls = 6 /\ Exhaustions = 1

----------------------------------------------------------------------------
\* A pattern after the marker rejected its element.
BackRejected ==
    /\ BackTests # << >>
    /\ LET t == BackTests[Len(BackTests)] IN ~Accepts(bpat[t.slot[2]], t.elem)

\* C17 (the window loop runs to exhaustion): in the `**` arms, once the prefix
\* matched and __buf is filled, the expansion pulls until next returns None
\* and evaluates the patterns after the marker only then; so the source is
\* wholly consumed, by N pulls and one more that found it exhausted, whenever
\* a pattern after the marker has been evaluated, and whenever the expansion
\* ends in $body or in the rejection of a pattern after the marker.
C17_LoopToExhaustion ==
    arm \in WindowArms =>
        /\ (pc = "slide" /\ iter # << >>) => BackTests = << >>
        /\ pc = "match" => (iter = << >> /\ BackTests = << >>)
        /\ BackTests # << >> => (iter = << >> /\ pulls = N + 1)
        /\ (pc = "body" \/ ran = <<"body">> \/ BackRejected) =>
                (iter = << >> /\ pulls = N + 1 /\ Len(buf) = K)

\* A `**` expansion that ended in the rejection of a pattern after the marker
\* after pulling a middle of three elements.
C17_Witness ==
    /\ arm = "**" /\ Done /\ BackRejected
    /\ N - P - K = 3 /\ iter = << >>

----------------------------------------------------------------------------
\* C18 (pulls of the sized arms): a sized expansion of P slots makes at most
\* P + 1 pulls whatever the length of the source: one per slot bound while it
\* matches, exactly i + 1 when it fails at slot i (0-based; exhaustion or
\* rejection), exactly P + 1 when the P slots accept (the last being the
\* trailing check); and the depth of the else(err) arm is the number of slots
\* bound so far, never more than P.
C18_SizedPulls ==
    arm \in SizedArms =>
        /\ pulls <= P + 1
        /\ Len(fbind) <= P
        /\ pc = "front" => (Len(fbind) < P /\ pulls = Len(fbind))
        /\ pc = "tail" => (Len(fbind) = P /\ pulls = P)
        /\ (Failing /\ Len(fbind) < P) => pulls = Len(fbind) + 1
        /\ (Len(fbind) = P /\ pc \in {"body", "errbody", "done"}) =>
                pulls = P + 1
        /\ arm = "sized(err)" => err = Some(Len(fbind))
        /\ arm = "sized" => err = None

\* A sized expansion of two slots over a source of five elements, all
\* accepted: three pulls, two elements never pulled.
C18_Witness ==
    /\ arm = "sized(err)" /\ Done /\ P = 2 /\ N = 5
    /\ Len(fbind) = 2 /\ pulls = 3 /\ Len(iter) = 2 /\ err = Some(2)

\* A sized expansion that failed at its second slot, by rejection, after two
\* pulls.
C18_WitnessRejected ==
    /\ arm = "sized(err)" /\ Done /\ FrontRejected
    /\ P = 2 /\ Len(fbind) = 1 /\ pulls = 2 /\ Len(iter) >= 1

====
